---- MODULE Spec2Model ----
(***************************************************************************)
(* Heartbeat change tracking of api/v1/helpers/verbs/heartbeatUtils.js:    *)
(* per collector, the redis sets of generator ids added, deleted and       *)
(* updated since the collector's last heartbeat, and the compaction that   *)
(* trackGeneratorChanges applies to them.                                  *)
(***************************************************************************)
EXTENDS Integers, FiniteSets, Sequences, TLC

\* ------------------------------------------------------------ universe

\* Generator ids are 1..NumEntities.
NumEntities == 2

\* Heartbeats in one behaviour of SpecConc.
MaxDrains == 1

Entities == 1..NumEntities

\* Collector names.
Consumers == {"A", "B"}

\* The calls of trackGeneratorChanges that may overlap (SpecConc).
Procs == {"p1", "p2"}

\* ------------------------------------------------------------ constants

ADDED == "added"

DELETED == "deleted"

UPDATED == "updated"

\* NOCHANGE is the number 0 in the source; it is only ever compared (===)
\* with the three strings above, which it never equals.
NOCHANGE == "0"

\* The value of a `let` variable that was never assigned.
UNDEFINED == "undefined"

ChangeTypes == {ADDED, DELETED, UPDATED}

\* ------------------------------------------------------------ redis keys

\* `heartbeat::generatorChanges::${collectorName}::${changeType}`
getKey(collectorName, changeType) == <<collectorName, changeType>>

Keys == {getKey(c, k) : c \in Consumers, k \in ChangeTypes}

\* A redis database holding only these keys; a missing key is the empty set.
Stores == [Keys -> SUBSET Entities]

EmptyStore == [k \in Keys |-> {}]

\* ------------------------------------------------------------ delta store

\* Mutant of getChangedIds: the added set is not read.
getChangedIds_Stale(s, collectorName) ==
  [added   |-> {},
   deleted |-> s[getKey(collectorName, DELETED)],
   updated |-> s[getKey(collectorName, UPDATED)]]

\* Mutant of getChangedIds: the updated set is not read.
getChangedIds_NoUpdated(s, collectorName) ==
  [added   |-> s[getKey(collectorName, ADDED)],
   deleted |-> s[getKey(collectorName, DELETED)],
   updated |-> {}]

\* MULTI smembers x3 EXEC: the three sets of one collector in one store state.
getChangedIds(s, collectorName) ==
  [added   |-> s[getKey(collectorName, ADDED)],
   deleted |-> s[getKey(collectorName, DELETED)],
   updated |-> s[getKey(collectorName, UPDATED)]]

\* Whether removeFromSet / addToSet send a command at all.
IsChangeType(change) == change = ADDED \/ change = DELETED \/ change = UPDATED

\* Mutant of removeFromSet: the SREM is never sent.
removeFromSet_Never(s, collectorName, change, genId) == s

\* Mutant of removeFromSet: the whole key is deleted.
removeFromSet_WholeKey(s, collectorName, change, genId) ==
  IF IsChangeType(change)
    THEN [s EXCEPT ![getKey(collectorName, change)] = {}]
    ELSE s

\* SREM key genId, or nothing when change is not one of the three kinds.
removeFromSet(s, collectorName, change, genId) ==
  IF IsChangeType(change)
    THEN [s EXCEPT ![getKey(collectorName, change)] = @ \ {genId}]
    ELSE s

\* Mutant of addToSet: a change that is not one of the three kinds is
\* recorded as updated.
addToSet_DefaultUpdated(s, collectorName, change, genId) ==
  IF IsChangeType(change)
    THEN [s EXCEPT ![getKey(collectorName, change)] = @ \cup {genId}]
    ELSE [s EXCEPT ![getKey(collectorName, UPDATED)] = @ \cup {genId}]

\* SADD key genId, or nothing when change is not one of the three kinds.
addToSet(s, collectorName, change, genId) ==
  IF IsChangeType(change)
    THEN [s EXCEPT ![getKey(collectorName, change)] = @ \cup {genId}]
    ELSE s

\* Mutant of resetChanges: the updated key is not deleted.
resetChanges_KeepUpdated(s, collectorName) ==
  [k \in Keys |->
     IF k \in {getKey(collectorName, ADDED), getKey(collectorName, DELETED)}
       THEN {} ELSE s[k]]

\* Mutant of resetChanges: the keys of every collector are deleted.
resetChanges_AllCollectors(s, collectorName) == [k \in Keys |-> {}]

\* DEL addedKey deletedKey updatedKey: one command.
resetChanges(s, collectorName) ==
  [k \in Keys |->
     IF k \in {getKey(collectorName, ADDED), getKey(collectorName, DELETED),
               getKey(collectorName, UPDATED)}
       THEN {} ELSE s[k]]

\* ------------------------------------------------------------ reconciliation

\* Array.from(new Set([...oldCollectors, ...newCollectors]))
allCollectors(oldCollectors, newCollectors) == oldCollectors \cup newCollectors

\* Mutant of changeType: DELETED and ADDED are exchanged.
changeType_Swapped(collectorName, oldCollectors, newCollectors) ==
  LET inOld == collectorName \in oldCollectors
      inNew == collectorName \in newCollectors
  IN  IF inOld /\ ~inNew THEN ADDED
      ELSE IF ~inOld /\ inNew THEN DELETED
      ELSE IF inOld /\ inNew THEN UPDATED
      ELSE UNDEFINED

\* Mutant of changeType: the third if (in both arrays) is missing.
changeType_NoUpdate(collectorName, oldCollectors, newCollectors) ==
  LET inOld == collectorName \in oldCollectors
      inNew == collectorName \in newCollectors
  IN  IF inOld /\ ~inNew THEN DELETED
      ELSE IF ~inOld /\ inNew THEN ADDED
      ELSE UNDEFINED

\* "determine the change type": three ifs over exclusive conditions.
changeType(collectorName, oldCollectors, newCollectors) ==
  LET inOld == collectorName \in oldCollectors
      inNew == collectorName \in newCollectors
  IN  IF inOld /\ ~inNew THEN DELETED
      ELSE IF ~inOld /\ inNew THEN ADDED
      ELSE IF inOld /\ inNew THEN UPDATED
      ELSE UNDEFINED

\* The shape shared by accountForPrevious and its mutants: the three
\* compaction rows r1, r2, r3 and the result of the final else.
Rows(changedIds, genId, rawChange, r1, r2, r3, other) ==
  LET alreadyAdded   == genId \in changedIds.added
      alreadyDeleted == genId \in changedIds.deleted
      alreadyUpdated == genId \in changedIds.updated
      alreadyChanged == alreadyAdded \/ alreadyDeleted \/ alreadyUpdated
  IN  IF alreadyChanged
        THEN IF alreadyAdded /\ rawChange = DELETED THEN r1
             ELSE IF alreadyDeleted /\ rawChange = ADDED THEN r2
             ELSE IF alreadyUpdated /\ rawChange = DELETED THEN r3
             ELSE other
        ELSE [undoChange |-> UNDEFINED, change |-> rawChange]

Keep == [undoChange |-> UNDEFINED, change |-> NOCHANGE]

\* Mutant of accountForPrevious: added-then-deleted does not cancel.
accountForPrevious_NoCancel(changedIds, genId, rawChange) ==
  Rows(changedIds, genId, rawChange, Keep,
       [undoChange |-> DELETED, change |-> UPDATED],
       [undoChange |-> UPDATED, change |-> DELETED], Keep)

\* Mutant of accountForPrevious: deleted-then-added records ADDED again.
accountForPrevious_ReAdd(changedIds, genId, rawChange) ==
  Rows(changedIds, genId, rawChange,
       [undoChange |-> ADDED, change |-> NOCHANGE],
       [undoChange |-> DELETED, change |-> ADDED],
       [undoChange |-> UPDATED, change |-> DELETED], Keep)

\* Mutant of accountForPrevious: updated-then-deleted stays UPDATED.
accountForPrevious_NoDominance(changedIds, genId, rawChange) ==
  Rows(changedIds, genId, rawChange,
       [undoChange |-> ADDED, change |-> NOCHANGE],
       [undoChange |-> DELETED, change |-> UPDATED], Keep, Keep)

\* Mutant of accountForPrevious: updated-then-deleted cancels like added-then-deleted.
accountForPrevious_UpdatedCancels(changedIds, genId, rawChange) ==
  Rows(changedIds, genId, rawChange,
       [undoChange |-> ADDED, change |-> NOCHANGE],
       [undoChange |-> DELETED, change |-> UPDATED],
       [undoChange |-> UPDATED, change |-> NOCHANGE], Keep)

\* Mutant of accountForPrevious: the final else forgets change = NOCHANGE.
accountForPrevious_KeepRaw(changedIds, genId, rawChange) ==
  Rows(changedIds, genId, rawChange,
       [undoChange |-> ADDED, change |-> NOCHANGE],
       [undoChange |-> DELETED, change |-> UPDATED],
       [undoChange |-> UPDATED, change |-> DELETED],
       [undoChange |-> UNDEFINED, change |-> rawChange])

\* "account for previous changes": the kind to undo and the kind to record.
accountForPrevious(changedIds, genId, rawChange) ==
  LET alreadyAdded   == genId \in changedIds.added
      alreadyDeleted == genId \in changedIds.deleted
      alreadyUpdated == genId \in changedIds.updated
      alreadyChanged == alreadyAdded \/ alreadyDeleted \/ alreadyUpdated
  IN  IF alreadyChanged
        THEN IF alreadyAdded /\ rawChange = DELETED
               THEN [undoChange |-> ADDED, change |-> NOCHANGE]
             ELSE IF alreadyDeleted /\ rawChange = ADDED
               THEN [undoChange |-> DELETED, change |-> UPDATED]
             ELSE IF alreadyUpdated /\ rawChange = DELETED
               THEN [undoChange |-> UPDATED, change |-> DELETED]
             ELSE [undoChange |-> UNDEFINED, change |-> NOCHANGE]
        ELSE [undoChange |-> UNDEFINED, change |-> rawChange]

\* What the forEach body decides for one collector from its snapshot.
decide(changedIds, genId, collectorName, oldCollectors, newCollectors) ==
  accountForPrevious(changedIds, genId,
                     changeType(collectorName, oldCollectors, newCollectors))

\* Mutant of updateRedis: the removeFromSet call is missing.
updateRedis_NoRemove(s, collectorName, d, genId) ==
  addToSet(s, collectorName, d.change, genId)

\* "update redis" for one collector: removeFromSet, then addToSet.
updateRedis(s, collectorName, d, genId) ==
  addToSet(removeFromSet(s, collectorName, d.undoChange, genId),
           collectorName, d.change, genId)

\* A whole trackGeneratorChanges call with no other command in between: every
\* collector's snapshot is read from s, then every collector's two commands
\* run.  The commands of collector c touch only the keys of c.
trackGeneratorChanges(s, genId, oldCollectors, newCollectors) ==
  [k \in Keys |->
     IF k[1] \in allCollectors(oldCollectors, newCollectors)
       THEN updateRedis(s, k[1],
                        decide(getChangedIds(s, k[1]), genId, k[1],
                               oldCollectors, newCollectors),
                        genId)[k]
       ELSE s[k]]

\* ------------------------------------------------------------ state

VARIABLES
  store,       \* the redis database
  pc,          \* Spec: "idle", "called" (a call is running), "settled" (it is complete)
  call,        \* Spec: the operation that is running or was completed last
  pre,         \* Spec: the store when that operation began
  follow,      \* Spec: "none", or how `call` follows the call before it: "retry", "revert"
  pre0,        \* Spec: the store when the call before a retry or revert began
  assoc,       \* SpecHist: the domain layer, generator -> its collectors
  drainAssoc,  \* SpecHist: collector -> the generators it had at its last drain
  ran,         \* SpecHist: collector -> the generators reconciled since that drain
  touched,     \* SpecHist: collector -> those reconciled with it in old or new
  cpc,         \* SpecConc: call -> "idle", "reading", "writing", "done"
  cargs,       \* SpecConc: call -> its arguments
  toRead,      \* SpecConc: call -> collectors whose getChangedIds has not run yet
  snap,        \* SpecConc: call -> collector -> the reply of its getChangedIds
  wq,          \* SpecConc: call -> collector -> its commands sent and not yet run
  dpc,         \* SpecConc: collector -> "idle", "read" (heartbeat between read and reset), "done"
  reply,       \* SpecConc: collector -> what its heartbeat's getChangedIds returned
  ndrains,     \* SpecConc: heartbeats begun
  order,       \* the calls in the order of their invocation, each with the
               \* calls that were in flight when it was invoked
  failed,      \* call -> the collectors for which a redis command of it failed
  returned,    \* call -> what trackGeneratorChanges returned to its caller
  during,      \* collector -> the <<kind, id>> added between its heartbeat's read and reset
  cleared      \* collector -> its three sets when its heartbeat's reset ran

seqVars == <<pc, call, pre, follow, pre0>>

histVars == <<assoc, drainAssoc, ran, touched>>

obsVars == <<order, failed, returned, during, cleared>>

concVars == <<cpc, cargs, toRead, snap, wq, dpc, reply, ndrains, obsVars>>

vars == <<store, seqVars, histVars, concVars>>

NoReply == [added |-> {}, deleted |-> {}, updated |-> {}]

NoOp == [op |-> "none", genId |-> 0, collector |-> "", old |-> {}, new |-> {}]

ReconcileOp(e, old, new) ==
  [op |-> "reconcile", genId |-> e, collector |-> "", old |-> old, new |-> new]

DrainOp(c) == [op |-> "drain", genId |-> 0, collector |-> c, old |-> {}, new |-> {}]

Init ==
  /\ store = EmptyStore
  /\ pc = "idle"
  /\ call = NoOp
  /\ pre = EmptyStore
  /\ follow = "none"
  /\ pre0 = EmptyStore
  /\ assoc = [e \in Entities |-> {}]
  /\ drainAssoc = [c \in Consumers |-> {}]
  /\ ran = [c \in Consumers |-> {}]
  /\ touched = [c \in Consumers |-> {}]
  /\ cpc = [p \in Procs |-> "idle"]
  /\ cargs = [p \in Procs |-> NoOp]
  /\ toRead = [p \in Procs |-> {}]
  /\ snap = [p \in Procs |-> [c \in Consumers |-> NoReply]]
  /\ wq = [p \in Procs |-> [c \in Consumers |-> <<>>]]
  /\ dpc = [c \in Consumers |-> "idle"]
  /\ reply = [c \in Consumers |-> NoReply]
  /\ ndrains = 0
  /\ order = <<>>
  /\ failed = [p \in Procs |-> {}]
  /\ returned = [p \in Procs |-> UNDEFINED]
  /\ during = [c \in Consumers |-> {}]
  /\ cleared = [c \in Consumers |-> NoReply]

\* ------------------------------------------------------------ Spec
\* Operations run one at a time, with any arguments.

\* trackGeneratorChanges(generator, oldCollectors, newCollectors) is invoked.
Call(e, old, new) ==
  /\ pc = "idle"
  /\ pc' = "called"
  /\ call' = ReconcileOp(e, old, new)
  /\ pre' = store
  /\ follow' = "none"
  /\ UNCHANGED <<store, pre0, histVars, concVars>>

\* Its promise chain runs to the end: the reads, then the writes.
Settle ==
  /\ pc = "called"
  /\ store' = trackGeneratorChanges(store, call.genId, call.old, call.new)
  /\ pc' = "settled"
  /\ UNCHANGED <<call, pre, follow, pre0, histVars, concVars>>

\* The caller invokes it again with the same arguments.
Retry ==
  /\ pc = "settled"
  /\ call.op = "reconcile"
  /\ follow = "none"
  /\ pc' = "called"
  /\ follow' = "retry"
  /\ pre0' = pre
  /\ pre' = store
  /\ UNCHANGED <<store, call, histVars, concVars>>

\* The association change is undone: the next call has old and new swapped.
Revert ==
  /\ pc = "settled"
  /\ call.op = "reconcile"
  /\ follow = "none"
  /\ pc' = "called"
  /\ call' = ReconcileOp(call.genId, call.new, call.old)
  /\ follow' = "revert"
  /\ pre0' = pre
  /\ pre' = store
  /\ UNCHANGED <<store, histVars, concVars>>

\* A heartbeat of collector c: getChangedIds, then resetChanges.
Drain(c) ==
  /\ pc = "idle"
  /\ store' = resetChanges(store, c)
  /\ pc' = "settled"
  /\ call' = DrainOp(c)
  /\ pre' = store
  /\ follow' = "none"
  /\ UNCHANGED <<pre0, histVars, concVars>>

\* The record of the completed operation is dropped; the store is as it was.
Release ==
  /\ pc = "settled"
  /\ pc' = "idle"
  /\ call' = NoOp
  /\ pre' = EmptyStore
  /\ follow' = "none"
  /\ pre0' = EmptyStore
  /\ UNCHANGED <<store, histVars, concVars>>

CallAny == \E e \in Entities, old \in SUBSET Consumers, new \in SUBSET Consumers :
             Call(e, old, new)

DrainAny == \E c \in Consumers : Drain(c)

Next == CallAny \/ Settle \/ Retry \/ Revert \/ DrainAny \/ Release

Spec == Init /\ [][Next]_vars

\* ------------------------------------------------------------ SpecHist
\* Operations run one at a time and every call's oldCollectors is what the
\* call before it, for the same generator, passed as newCollectors.

\* The domain layer changes generator e's collectors to new and reports it.
HistReconcile(e, new) ==
  /\ store' = trackGeneratorChanges(store, e, assoc[e], new)
  /\ assoc' = [assoc EXCEPT ![e] = new]
  /\ ran' = [c \in Consumers |-> ran[c] \cup {e}]
  /\ touched' = [c \in Consumers |->
                   IF c \in allCollectors(assoc[e], new)
                     THEN touched[c] \cup {e} ELSE touched[c]]
  /\ UNCHANGED <<drainAssoc, seqVars, concVars>>

\* A heartbeat of collector c.
HistDrain(c) ==
  /\ store' = resetChanges(store, c)
  /\ drainAssoc' = [drainAssoc EXCEPT ![c] = {e \in Entities : c \in assoc[e]}]
  /\ ran' = [ran EXCEPT ![c] = {}]
  /\ touched' = [touched EXCEPT ![c] = {}]
  /\ UNCHANGED <<assoc, seqVars, concVars>>

HistReconcileAny == \E e \in Entities, new \in SUBSET Consumers : HistReconcile(e, new)

HistDrainAny == \E c \in Consumers : HistDrain(c)

NextHist == HistReconcileAny \/ HistDrainAny

SpecHist == Init /\ [][NextHist]_vars

\* ------------------------------------------------------------ SpecConc
\* Calls and heartbeats overlap: every redis command (a MULTI block, an SREM,
\* an SADD, a DEL) is one step, and the steps of different calls interleave.

\* Mutant of commands: the SREM of the undone kind is not sent.
commands_NoUndo(d) ==
  IF IsChangeType(d.change) THEN <<[cmd |-> "sadd", change |-> d.change]>> ELSE <<>>

\* Mutant of commands: the SADD is sent before the SREM.
commands_AddFirst(d) ==
  (IF IsChangeType(d.change) THEN <<[cmd |-> "sadd", change |-> d.change]>> ELSE <<>>)
  \o (IF IsChangeType(d.undoChange) THEN <<[cmd |-> "srem", change |-> d.undoChange]>> ELSE <<>>)

\* The commands "update redis" sends for one collector, in order; a kind that
\* is not one of the three sends nothing.
commands(d) ==
  (IF IsChangeType(d.undoChange) THEN <<[cmd |-> "srem", change |-> d.undoChange]>> ELSE <<>>)
  \o (IF IsChangeType(d.change) THEN <<[cmd |-> "sadd", change |-> d.change]>> ELSE <<>>)

\* One command of collectorName's queue runs in redis.
runCommand(s, collectorName, command, genId) ==
  IF command.cmd = "srem"
    THEN removeFromSet(s, collectorName, command.change, genId)
    ELSE addToSet(s, collectorName, command.change, genId)

\* Call p has been invoked and has redis commands outstanding.
InFlight(p) == cpc[p] \in {"reading", "writing"}

\* trackGeneratorChanges is invoked: a getChangedIds is sent per collector.
\* With no collector at all both Promise.all resolve at once.
ConcCall(p, e, old, new) ==
  /\ cpc[p] = "idle"
  /\ cargs' = [cargs EXCEPT ![p] = ReconcileOp(e, old, new)]
  /\ toRead' = [toRead EXCEPT ![p] = allCollectors(old, new)]
  /\ cpc' = [cpc EXCEPT ![p] = IF allCollectors(old, new) = {} THEN "done" ELSE "reading"]
  /\ order' = Append(order, [proc |-> p, with |-> {q \in Procs : InFlight(q)}])
  /\ returned' = [returned EXCEPT ![p] = UNDEFINED]
  /\ UNCHANGED <<store, snap, wq, dpc, reply, ndrains, failed, during, cleared,
                 seqVars, histVars>>

\* The MULTI block of one getChangedIds runs.  When it was the last one, the
\* .then callback decides for every collector and sends the commands.
ConcRead(p, c) ==
  /\ cpc[p] = "reading"
  /\ c \in toRead[p]
  /\ LET a == cargs[p]
         replies == [snap[p] EXCEPT ![c] = getChangedIds(store, c)]
         queues == [x \in Consumers |->
                      IF x \in allCollectors(a.old, a.new)
                        THEN commands(decide(replies[x], a.genId, x, a.old, a.new))
                        ELSE <<>>]
     IN  IF toRead[p] = {c}
           THEN /\ snap' = [snap EXCEPT ![p] = [x \in Consumers |-> NoReply]]
                /\ wq' = [wq EXCEPT ![p] = queues]
                /\ cpc' = [cpc EXCEPT ![p] =
                             IF \A x \in Consumers : queues[x] = <<>>
                               THEN "done" ELSE "writing"]
           ELSE /\ snap' = [snap EXCEPT ![p] = replies]
                /\ UNCHANGED <<wq, cpc>>
  /\ toRead' = [toRead EXCEPT ![p] = @ \ {c}]
  /\ UNCHANGED <<store, cargs, dpc, reply, ndrains, obsVars, seqVars, histVars>>

\* The next SREM or SADD of collector c runs.
ConcWrite(p, c) ==
  /\ cpc[p] = "writing"
  /\ wq[p][c] # <<>>
  /\ store' = runCommand(store, c, Head(wq[p][c]), cargs[p].genId)
  /\ wq' = [wq EXCEPT ![p][c] = Tail(@)]
  /\ cpc' = [cpc EXCEPT ![p] =
               IF \A x \in Consumers : wq'[p][x] = <<>> THEN "done" ELSE "writing"]
  /\ during' = [during EXCEPT ![c] =
                  IF dpc[c] = "read" /\ Head(wq[p][c]).cmd = "sadd"
                    THEN @ \cup {<<Head(wq[p][c]).change, cargs[p].genId>>}
                    ELSE @]
  /\ UNCHANGED <<cargs, toRead, snap, dpc, reply, ndrains, order, failed, returned,
                 cleared, seqVars, histVars>>

\* A heartbeat of collector c reads its changes.
HeartbeatRead(c) ==
  /\ dpc[c] \in {"idle", "done"}
  /\ ndrains < MaxDrains
  /\ ndrains' = ndrains + 1
  /\ reply' = [reply EXCEPT ![c] = getChangedIds(store, c)]
  /\ dpc' = [dpc EXCEPT ![c] = "read"]
  /\ during' = [during EXCEPT ![c] = {}]
  /\ cleared' = [cleared EXCEPT ![c] = NoReply]
  /\ UNCHANGED <<store, cpc, cargs, toRead, snap, wq, order, failed, returned,
                 seqVars, histVars>>

\* The heartbeat resets them.
HeartbeatReset(c) ==
  /\ dpc[c] = "read"
  /\ store' = resetChanges(store, c)
  /\ dpc' = [dpc EXCEPT ![c] = "done"]
  /\ cleared' = [cleared EXCEPT ![c] = [k \in ChangeTypes |-> store[getKey(c, k)]]]
  /\ UNCHANGED <<cpc, cargs, toRead, snap, wq, reply, ndrains, order, failed, returned,
                 during, seqVars, histVars>>

ConcCallAny ==
  \E p \in Procs, e \in Entities, old \in SUBSET Consumers, new \in SUBSET Consumers :
    ConcCall(p, e, old, new)

ConcReadAny == \E p \in Procs, c \in Consumers : ConcRead(p, c)

ConcWriteAny == \E p \in Procs, c \in Consumers : ConcWrite(p, c)

HeartbeatReadAny == \E c \in Consumers : HeartbeatRead(c)

HeartbeatResetAny == \E c \in Consumers : HeartbeatReset(c)

NextConc ==
  ConcCallAny \/ ConcReadAny \/ ConcWriteAny \/ HeartbeatReadAny \/ HeartbeatResetAny

SpecConc == Init /\ [][NextConc]_vars

\* ------------------------------------------------------------ SpecSerial
\* Calls for the same generator never overlap; calls for different generators
\* interleave; no heartbeat runs.

SerialCall(p, e, old, new) ==
  /\ \A q \in Procs : InFlight(q) => cargs[q].genId # e
  /\ ConcCall(p, e, old, new)

SerialCallAny ==
  \E p \in Procs, e \in Entities, old \in SUBSET Consumers, new \in SUBSET Consumers :
    SerialCall(p, e, old, new)

NextSerial == SerialCallAny \/ ConcReadAny \/ ConcWriteAny

SpecSerial == Init /\ [][NextSerial]_vars

\* ------------------------------------------------------------ SpecBeat
\* The calls for one generator run one after the other (p1 first), every
\* redis command one step, and the heartbeats of the collectors interleave
\* with them.

BeatCall(p, e, old, new) ==
  /\ \A q \in Procs : ~InFlight(q)
  /\ p = "p2" => cpc["p1"] = "done"
  /\ \A q \in Procs : cpc[q] = "done" => cargs[q].genId = e
  /\ ConcCall(p, e, old, new)

BeatCallAny ==
  \E p \in Procs, e \in Entities, old \in SUBSET Consumers, new \in SUBSET Consumers :
    BeatCall(p, e, old, new)

NextBeat ==
  BeatCallAny \/ ConcReadAny \/ ConcWriteAny \/ HeartbeatReadAny \/ HeartbeatResetAny

SpecBeat == Init /\ [][NextBeat]_vars

\* ------------------------------------------------------------ SpecFail
\* The calls for one generator run one after the other, and a redis command
\* of a call can fail: its promise is rejected and the store is unchanged.

\* The getChangedIds of collector c fails: the Promise.all of the reads is
\* rejected, the .then callback never runs and no SREM or SADD is sent; the
\* replies of the other reads are dropped.  Nothing handles the rejection.
ConcReadFail(p, c) ==
  /\ cpc[p] = "reading"
  /\ c \in toRead[p]
  /\ toRead' = [toRead EXCEPT ![p] = {}]
  /\ snap' = [snap EXCEPT ![p] = [x \in Consumers |-> NoReply]]
  /\ cpc' = [cpc EXCEPT ![p] = "done"]
  /\ failed' = [failed EXCEPT ![p] = @ \cup {c}]
  /\ UNCHANGED <<store, cargs, wq, dpc, reply, ndrains, order, returned, during, cleared,
                 seqVars, histVars>>

\* The next SREM or SADD of collector c fails.  The commands were all sent
\* when the callback ran, so the others still run; the Promise.all of the
\* writes is rejected and nothing handles the rejection.
ConcWriteFail(p, c) ==
  /\ cpc[p] = "writing"
  /\ wq[p][c] # <<>>
  /\ wq' = [wq EXCEPT ![p][c] = Tail(@)]
  /\ cpc' = [cpc EXCEPT ![p] =
               IF \A x \in Consumers : wq'[p][x] = <<>> THEN "done" ELSE "writing"]
  /\ failed' = [failed EXCEPT ![p] = @ \cup {c}]
  /\ UNCHANGED <<store, cargs, toRead, snap, dpc, reply, ndrains, order, returned, during,
                 cleared, seqVars, histVars>>

ConcReadFailAny == \E p \in Procs, c \in Consumers : ConcReadFail(p, c)

ConcWriteFailAny == \E p \in Procs, c \in Consumers : ConcWriteFail(p, c)

NextFail ==
  BeatCallAny \/ ConcReadAny \/ ConcWriteAny \/ ConcReadFailAny \/ ConcWriteFailAny

SpecFail == Init /\ [][NextFail]_vars

\* ------------------------------------------------------------ observations

\* The kinds under which store s holds generator e for collector c.
KindsOf(s, c, e) == {k \in ChangeTypes : e \in s[getKey(c, k)]}

\* The three sets of collector c in store s.
SetsOf(s, c) == [k \in ChangeTypes |-> s[getKey(c, k)]]

MutuallyExclusive(s) ==
  \A c \in Consumers, e \in Entities : Cardinality(KindsOf(s, c, e)) <= 1

\* A reconcile call has just completed.
Reconciled == pc = "settled" /\ call.op = "reconcile"

\* The raw transition of the completed call for collector c.
Raw(c) == changeType(c, call.old, call.new)

\* ------------------------------------------------------------ claims

\* C1 (SpecHist): with calls one at a time and a consistent history, the
\* pending record of generator e for collector c is the net change since c's
\* last drain: Added iff c did not have e at the drain and has it now, Deleted
\* iff c had e at the drain and has it no more, Updated iff c had e at the
\* drain, has it now and a reconcile for e ran since, and nothing otherwise.
C1_NetDelta ==
  \A c \in Consumers, e \in Entities :
    LET atDrain == e \in drainAssoc[c]
        now     == c \in assoc[e]
    IN  KindsOf(store, c, e) =
          IF ~atDrain /\ now THEN {ADDED}
          ELSE IF atDrain /\ ~now THEN {DELETED}
          ELSE IF atDrain /\ now /\ e \in ran[c] THEN {UPDATED}
          ELSE {}

\* Since its drain a collector kept one generator, reconciled since, and
\* was given and lost another one, whose add and delete cancelled.
C1_Witness ==
  \E c \in Consumers, e1 \in Entities, e2 \in Entities :
    /\ e1 \in touched[c] /\ e1 \in drainAssoc[c] /\ c \in assoc[e1]
    /\ KindsOf(store, c, e1) = {UPDATED}
    /\ e2 \in touched[c] /\ e2 \notin drainAssoc[c] /\ c \notin assoc[e2]
    /\ KindsOf(store, c, e2) = {}

\* C2 (Spec): when a reconcile call completes, no generator id is in more
\* than one of a collector's three sets.
C2_ExclusiveAfterCall == Reconciled => MutuallyExclusive(store)

\* A call completed that replaced a pending record by another one.
C2_Witness ==
  /\ Reconciled
  /\ \E c \in Consumers :
       /\ KindsOf(pre, c, call.genId) = {DELETED}
       /\ KindsOf(store, c, call.genId) = {UPDATED}

\* C3 (Spec): with no pending record of e for c, reconcile(e, {}, {c}) and
\* then reconcile(e, {c}, {}) leave e in none of c's three sets.
C3_Cancellation ==
  \A c \in Consumers :
    ( /\ Reconciled /\ follow = "revert"
      /\ call.old = {c} /\ call.new = {}
      /\ KindsOf(pre0, c, call.genId) = {} )
    => KindsOf(store, c, call.genId) = {}

\* The second call of such a pair completed, and found e in Added.
C3_Witness ==
  \E c \in Consumers :
    /\ Reconciled /\ follow = "revert"
    /\ call.old = {c} /\ call.new = {}
    /\ KindsOf(pre0, c, call.genId) = {}
    /\ KindsOf(pre, c, call.genId) = {ADDED}

\* C4 (Spec): with no pending record of e for c, reconcile(e, {c}, {}) and
\* then reconcile(e, {}, {c}) leave e in c's Updated set only.
C4_DeleteThenReadd ==
  \A c \in Consumers :
    ( /\ Reconciled /\ follow = "revert"
      /\ call.old = {} /\ call.new = {c}
      /\ KindsOf(pre0, c, call.genId) = {} )
    => KindsOf(store, c, call.genId) = {UPDATED}

\* The second call of such a pair completed, and found e in Deleted.
C4_Witness ==
  \E c \in Consumers :
    /\ Reconciled /\ follow = "revert"
    /\ call.old = {} /\ call.new = {c}
    /\ KindsOf(pre0, c, call.genId) = {}
    /\ KindsOf(pre, c, call.genId) = {DELETED}

\* C5 (Spec): when e is in c's Updated set only, a completed call with c in
\* old and not in new leaves e in c's Deleted set and not in its Updated set.
C5_Dominance ==
  \A c \in Consumers :
    ( /\ Reconciled
      /\ KindsOf(pre, c, call.genId) = {UPDATED}
      /\ c \in call.old /\ c \notin call.new )
    => /\ call.genId \in store[getKey(c, DELETED)]
       /\ call.genId \notin store[getKey(c, UPDATED)]

\* Such a call completed.
C5_Witness ==
  \E c \in Consumers :
    /\ Reconciled
    /\ KindsOf(pre, c, call.genId) = {UPDATED}
    /\ c \in call.old /\ c \notin call.new

\* C6 (Spec): a collector of old or new with no pending record of e gets e in
\* exactly the set of its raw transition: Deleted (old only), Added (new
\* only), Updated (both).
C6_RawTransition ==
  \A c \in Consumers :
    ( /\ Reconciled
      /\ c \in call.old \cup call.new
      /\ KindsOf(pre, c, call.genId) = {} )
    => KindsOf(store, c, call.genId) =
         IF c \in call.old /\ c \notin call.new THEN {DELETED}
         ELSE IF c \notin call.old /\ c \in call.new THEN {ADDED}
         ELSE {UPDATED}

\* One call gave one collector a Deleted record and the other an Updated one.
C6_Witness ==
  \E c \in Consumers, d \in Consumers :
    /\ Reconciled
    /\ pre = EmptyStore
    /\ c \in call.old /\ c \notin call.new
    /\ d \in call.old /\ d \in call.new
    /\ KindsOf(store, c, call.genId) = {DELETED}
    /\ KindsOf(store, d, call.genId) = {UPDATED}

\* The rows of the compaction table that keep the pending record.
NoOpRow(kinds, raw) ==
  \/ kinds = {ADDED} /\ raw \in {ADDED, UPDATED}
  \/ kinds = {DELETED} /\ raw \in {DELETED, UPDATED}
  \/ kinds = {UPDATED} /\ raw \in {ADDED, UPDATED}

\* C7 (Spec): in a no-op row of the table the call leaves the three sets of
\* that collector as they were.
C7_NoOpRows ==
  \A c \in Consumers :
    ( /\ Reconciled
      /\ c \in call.old \cup call.new
      /\ NoOpRow(KindsOf(pre, c, call.genId), Raw(c)) )
    => SetsOf(store, c) = SetsOf(pre, c)

\* One call met two different no-op rows.
C7_Witness ==
  \E c \in Consumers, d \in Consumers :
    /\ Reconciled
    /\ KindsOf(pre, c, call.genId) = {ADDED} /\ Raw(c) = UPDATED
    /\ KindsOf(pre, d, call.genId) = {DELETED} /\ Raw(d) = DELETED

\* C8 as claimed (Spec): with old = new, no set of those collectors changes.
C8_Original ==
  (Reconciled /\ call.old = call.new)
  => \A c \in call.old : SetsOf(store, c) = SetsOf(pre, c)

\* C8 as amended (Spec): with old = new, a collector of them that has a
\* pending record of e keeps its three sets; one that has none gets e added
\* to its Updated set and nothing else.
C8_UnchangedAssociation ==
  (Reconciled /\ call.old = call.new)
  => \A c \in call.old :
       SetsOf(store, c) =
         IF KindsOf(pre, c, call.genId) # {}
           THEN SetsOf(pre, c)
           ELSE [SetsOf(pre, c) EXCEPT ![UPDATED] = @ \cup {call.genId}]

\* A call with old = new completed for a collector with a record and one
\* without.
C8_Witness ==
  \E c \in Consumers, d \in Consumers :
    /\ Reconciled /\ call.old = call.new
    /\ c \in call.old /\ d \in call.old
    /\ KindsOf(pre, c, call.genId) = {DELETED}
    /\ KindsOf(pre, d, call.genId) = {}

\* C9 as claimed (Spec): a retry with the same arguments leaves the store as
\* the first run left it.
C9_Original == (Reconciled /\ follow = "retry") => store = pre

\* The first run met the cancellation row for some collector.
Cancelled(s) ==
  \E c \in call.old \ call.new : ADDED \in KindsOf(s, c, call.genId)

\* C9 as amended (Spec): a retry with the same arguments leaves the store as
\* the first run left it, unless the first run found e in the Added set of a
\* collector that is in old and not in new.
C9_RetryIdempotent ==
  (Reconciled /\ follow = "retry" /\ ~Cancelled(pre0)) => store = pre

\* A retry completed after a first run that compacted and one that recorded.
C9_Witness ==
  \E c \in Consumers, d \in Consumers :
    /\ Reconciled /\ follow = "retry" /\ ~Cancelled(pre0)
    /\ KindsOf(pre0, c, call.genId) = {DELETED} /\ Raw(c) = ADDED
    /\ KindsOf(pre0, d, call.genId) = {} /\ Raw(d) = DELETED
    /\ pre # pre0

\* C10 as claimed (SpecConc): in every reachable store state, also while
\* calls and heartbeats interleave, no generator id is in more than one of a
\* collector's three sets.
C10_ExclusiveAlways == MutuallyExclusive(store)

\* The store after the calls of o ran one at a time, in the order of o, from
\* the empty store.
RECURSIVE SeqResult(_)
SeqResult(o) ==
  IF o = <<>>
    THEN EmptyStore
    ELSE LET a == cargs[o[Len(o)].proc]
         IN  trackGeneratorChanges(SeqResult(SubSeq(o, 1, Len(o) - 1)), a.genId, a.old, a.new)

\* Every call that was invoked has completed.
Quiescent == \A p \in Procs : ~InFlight(p)

\* Two calls for different generators overlapped.
Overlapped == \E i \in 1..Len(order) : order[i].with # {}

\* C11: when calls for the same generator never overlap (calls for different
\* generators interleave their reads and writes) and no heartbeat runs, then
\* once all calls have completed the store is what the same calls give when
\* run one at a time in the order of their invocation, which is the
\* per-generator order, and no generator is in two sets of a collector.
C11_SerialPerEntity ==
  Quiescent => /\ store = SeqResult(order)
               /\ MutuallyExclusive(store)

\* Two calls for different generators and a common collector overlapped, both
\* have completed and both left a record.
C11_Witness ==
  /\ Quiescent
  /\ Len(order) = 2
  /\ Overlapped
  /\ \E c \in Consumers :
       \A p \in Procs : KindsOf(store, c, cargs[p].genId) # {}

\* The generators the heartbeat of collector c deleted from its set of kind k
\* without having returned them.
Lost(c, k) == cleared[c][k] \ reply[c][k]

\* C12: a heartbeat of collector c (getChangedIds, then resetChanges, two
\* redis commands) that interleaves with a call loses a change: the reset
\* deletes a record the read did not return.  Every record lost this way was
\* written by a call between the read and the reset.
C12_LostWrittenBetween ==
  \A c \in Consumers, k \in ChangeTypes :
    dpc[c] = "done" => \A e \in Lost(c, k) : <<k, e>> \in during[c]

\* The reset of c's heartbeat deleted a record a call had written after the
\* heartbeat's read; no set of c holds it for a later read.
C12_Witness ==
  \E c \in Consumers, k \in ChangeTypes, e \in Entities :
    /\ dpc[c] = "done"
    /\ e \in Lost(c, k)
    /\ <<k, e>> \in during[c]
    /\ KindsOf(store, c, e) = {}

\* No generator is under two kinds in the reply r of a getChangedIds.
ExclusiveReply(r) ==
  \A k1, k2 \in ChangeTypes : k1 # k2 => r[k1] \cap r[k2] = {}

\* C13: what getChangedIds returns for collector c, to a heartbeat or to a
\* call, is the content of c's three sets in the one store state in which its
\* MULTI block ran, and that step changes no set; no command of a concurrent
\* call takes effect between the three SMEMBERS, so while the calls for a
\* generator do not overlap no reply holds a generator under two kinds.
C13_AtomicSnapshot ==
  [][ /\ \A c \in Consumers :
          dpc[c] # "read" /\ dpc'[c] = "read" =>
            /\ reply'[c] = SetsOf(store, c)
            /\ store' = store
            /\ ExclusiveReply(reply'[c])
      /\ \A p \in Procs, c \in Consumers :
          c \in toRead[p] /\ c \notin toRead'[p] /\ toRead'[p] # {} =>
            /\ snap'[p][c] = SetsOf(store, c)
            /\ store' = store
            /\ ExclusiveReply(snap'[p][c]) ]_vars

\* A heartbeat of c has read a record while a call had a command for c
\* outstanding.
C13_Witness ==
  \E c \in Consumers, p \in Procs :
    /\ dpc[c] = "read"
    /\ reply[c] # NoReply
    /\ cpc[p] = "writing"
    /\ wq[p][c] # <<>>

\* Call p has completed and a redis command of it failed.
Failed(p) == cpc[p] = "done" /\ failed[p] # {}

\* Call p has completed and every redis command of it succeeded.
Succeeded(p) == cpc[p] = "done" /\ failed[p] = {}

\* C14: when a redis command (the getChangedIds or an SREM / SADD) of a call
\* fails for one collector, every other collector of the call still gets its
\* removal and its addition as if nothing had failed: with the failures in
\* the last call only, the sets of the collectors without a failure are those
\* of the calls run without any failure.
C14_FailureIsolation ==
  ( /\ Quiescent
    /\ order # <<>>
    /\ \A i \in 1..(Len(order) - 1) : Succeeded(order[i].proc) ) =>
      \A c \in Consumers \ failed[order[Len(order)].proc] :
        SetsOf(store, c) = SetsOf(SeqResult(order), c)

\* C15: what trackGeneratorChanges delivers to its caller tells a call with
\* a failed redis command from a call whose commands all succeeded.
C15_FailureReported ==
  \A p, q \in Procs : Failed(p) /\ Succeeded(q) => returned[p] # returned[q]

\* C16: when the resetChanges of a heartbeat of collector c has run, the
\* added, deleted and updated sets of c are all empty, whatever they held and
\* whatever the heartbeat's getChangedIds had returned.
C16_ResetEmpties ==
  [][ \A c \in Consumers :
        dpc[c] = "read" /\ dpc'[c] = "done" =>
          \A k \in ChangeTypes : store'[getKey(c, k)] = {} ]_vars

\* A reset emptied sets that held a record other than the one the read had
\* returned.
C16_Witness ==
  \E c \in Consumers :
    /\ dpc[c] = "done"
    /\ reply[c] # NoReply
    /\ cleared[c] # NoReply
    /\ cleared[c] # reply[c]
    /\ SetsOf(store, c) = NoReply

\* Values of a change that are none of the three kinds: the NOCHANGE signal,
\* an undefined undoChange, and any other value.
OtherKinds == {NOCHANGE, UNDEFINED, "other"}

\* The completed call kept the previous record of collector c: it called
\* removeFromSet with an undefined kind and addToSet with NOCHANGE.
KeptFor(c) ==
  /\ Reconciled
  /\ c \in allCollectors(call.old, call.new)
  /\ decide(getChangedIds(pre, c), call.genId, c, call.old, call.new) = Keep

\* C17: addToSet and removeFromSet called with a kind that is not ADDED,
\* DELETED or UPDATED leave every set of every collector as it is, in every
\* reachable store; a call that passes such kinds for a collector leaves the
\* sets of that collector as they were.
C17_NoOpKinds ==
  /\ \A c \in Consumers, e \in Entities, k \in OtherKinds :
       /\ addToSet(store, c, k, e) = store
       /\ removeFromSet(store, c, k, e) = store
  /\ \A c \in Consumers : KeptFor(c) => SetsOf(store, c) = SetsOf(pre, c)

\* A call passed an undefined undoChange and NOCHANGE for a collector that
\* holds records, the generator's among them.
C17_Witness ==
  \E c \in Consumers :
    /\ KeptFor(c)
    /\ KindsOf(pre, c, call.genId) # {}
    /\ \E e \in Entities \ {call.genId} : KindsOf(pre, c, e) # {}

\* The SADD of call p for collector c is the next command of c to run.
AddPending(p, c) ==
  /\ cpc[p] = "writing"
  /\ wq[p][c] # <<>>
  /\ Head(wq[p][c]).cmd = "sadd"

\* C18: within one call and for each collector, the removal of the undone
\* kind runs before the addition of the final kind: while no call for the
\* same generator overlaps, the generator is in at most one set of a
\* collector in every state, and in none of them while the addition is
\* still to run.
C18_UndoBeforeAdd ==
  /\ MutuallyExclusive(store)
  /\ \A p \in Procs, c \in Consumers :
       AddPending(p, c) => KindsOf(store, c, cargs[p].genId) = {}

\* The second call for a generator has removed the record the first call
\* left for a collector, and its addition for that collector is still to run.
C18_Witness ==
  \E c \in Consumers :
    /\ Len(order) = 2
    /\ AddPending(order[2].proc, c)
    /\ cargs["p1"].genId = cargs["p2"].genId
    /\ KindsOf(SeqResult(SubSeq(order, 1, 1)), c, cargs["p1"].genId) # {}

\* C19: a call changes nothing but the membership of its generator in the
\* sets of the collectors in oldCollectors \cup newCollectors: the sets of
\* every other collector and the membership of every other generator in
\* every set are as before, and with no collector at all the store is as
\* before.
C19_ReconcileFrame ==
  Reconciled =>
    /\ \A c \in Consumers \ allCollectors(call.old, call.new) :
         SetsOf(store, c) = SetsOf(pre, c)
    /\ \A k \in Keys : store[k] \ {call.genId} = pre[k] \ {call.genId}
    /\ allCollectors(call.old, call.new) = {} => store = pre

\* A call removed and added a record of its generator for a collector that
\* holds a record of another generator under the removed kind, while a
\* collector outside the call holds records.
C19_Witness ==
  /\ Reconciled
  /\ \E c \in allCollectors(call.old, call.new), k \in ChangeTypes :
       /\ call.genId \in pre[getKey(c, k)] \ store[getKey(c, k)]
       /\ pre[getKey(c, k)] \ {call.genId} # {}
       /\ KindsOf(store, c, call.genId) # {}
  /\ \E c \in Consumers \ allCollectors(call.old, call.new) : SetsOf(pre, c) # NoReply

\* C20: resetChanges removes the three sets of its collector in one command
\* and leaves the sets of every other collector as they are: after a
\* heartbeat every set of its collector is empty at once, never only some
\* of those that held records, and no other set has changed.
C20_ResetFrame ==
  (pc = "settled" /\ call.op = "drain") =>
    \A k \in Keys :
      store[k] = IF k[1] = call.collector THEN {} ELSE pre[k]

\* A heartbeat cleared two non-empty sets of its collector while another
\* collector holds records.
C20_Witness ==
  /\ pc = "settled"
  /\ call.op = "drain"
  /\ Cardinality({k \in ChangeTypes : pre[getKey(call.collector, k)] # {}}) >= 2
  /\ \E c \in Consumers \ {call.collector} : SetsOf(store, c) # NoReply
====
